---- MODULE Spec2Model ----
(***************************************************************************)
(* json-surf: the Surfer registry (src/src/registry.rs) and the schema     *)
(* helpers (src/src/utils.rs) as a state machine.                          *)
(*                                                                         *)
(* The persistent store is one directory per collection under one home;    *)
(* a Surfer owns, per registered collection, the opened index, the default *)
(* field list and the lazily opened writer and reader.  The engine         *)
(* (tokenizing, ranking, storage) is abstracted: a string is a sequence of *)
(* tokens, a hit's score is the number of (query term, default field)      *)
(* occurrences, ties are ranked by document address.                       *)
(*                                                                         *)
(* Option<T> is a sequence of length at most one: <<>> is None, <<x>> is   *)
(* Some(x).                                                                *)
(***************************************************************************)
EXTENDS Integers, Sequences, FiniteSets, TLC

\* ------------------------------------------------------------------ bounds
\* Documents (committed and pending) a home may hold in Spec.
MaxDocs == 2
\* Records in one insert_structs payload.
MaxBatch == 2
\* Documents the collection may hold in SpecLimit; above the default limit.
MaxBulkDocs == 11
\* Documents the collection may hold in SpecScore.
MaxScoreDocs == 3

\* ------------------------------------------------------------------ values
None == <<>>
Some(x) == <<x>>
is_none(o) == o = <<>>
is_some(o) == o # <<>>
unwrap(o) == o[1]

\* registry.rs:197  the limit used when the caller gives none
DefaultLimit == 10

Str(toks) == [tag |-> "String", val |-> toks]
\* A map with a key that is not a string: serde_json cannot serialize it.
BadMap == [tag |-> "MapNonStringKey", val |-> <<>>]

KV(k, v) == [k |-> k, v |-> v]

\* Rust structs, fields in declaration order (registry.rs:353-357 OldMan).
OldMan(title, body) ==
    [type |-> "OldMan", fields |-> <<KV("title", Str(title)), KV("body", Str(body))>>]
Pamphlet(title) ==
    [type |-> "Pamphlet", fields |-> <<KV("title", Str(title))>>]
\* utils.rs:241-244 DataVec: a string and a byte vector.
U8(n) == [tag |-> "U8", val |-> n]
SeqOf(items) == [tag |-> "Seq", val |-> items]
DataVec(identity, buffer) ==
    [type |-> "DataVec",
     fields |-> <<KV("identity", Str(identity)), KV("buffer", SeqOf(buffer))>>]
Atlas == [type |-> "Atlas", fields |-> <<KV("title", Str(<<"sea">>)), KV("legend", BadMap)>>]

\* The field names a struct type declares, in declaration order.
TypeFields(T) ==
    CASE T = "OldMan" -> <<"title", "body">>
      [] T = "Pamphlet" -> <<"title">>
      [] T = "DataVec" -> <<"identity", "buffer">>
      [] OTHER -> <<"title", "legend">>

\* Lexicographic rank of the names in use (BTreeMap key order).
KeyRank(k) ==
    CASE k = "body" -> 1
      [] k = "buffer" -> 2
      [] k = "identity" -> 3
      [] k = "legend" -> 4
      [] k = "title" -> 5
      [] OTHER -> 6

Range(s) == {s[i] : i \in 1..Len(s)}
Min(a, b) == IF a < b THEN a ELSE b

\* The indices of `ranks` in ascending order of rank, equal ranks in index
\* order (a stable sort).
RECURSIVE SortIdx(_, _)
SortIdx(ranks, left) ==
    IF left = {} THEN <<>>
    ELSE LET i == CHOOSE x \in left :
                    \A y \in left : ranks[x] < ranks[y] \/ (ranks[x] = ranks[y] /\ x <= y)
         IN <<i>> \o SortIdx(ranks, left \ {i})

Permute(s, idx) == [j \in 1..Len(s) |-> s[idx[j]]]

StableSort(s, ranks) == Permute(s, SortIdx(ranks, 1..Len(s)))

\* The members of a JSON object in key order.
SortByKey(members) ==
    StableSort(members, [i \in 1..Len(members) |-> KeyRank(members[i].k)])

\* Result<T, IndexError>
Ok(x) == [ok |-> TRUE, val |-> x, err |-> ""]
Err(e) == [ok |-> FALSE, val |-> <<>>, err |-> e]

\* ---------------------------------------------------------------- utils.rs
\* serde_value::to_value of a struct: a Map keyed by the field names, in key
\* order (a BTreeMap).
map_of(entries) ==
    [tag |-> "Map",
     val |-> StableSort(entries, [i \in 1..Len(entries) |-> KeyRank(entries[i].k.val)])]

as_value(data) ==
    Ok(map_of([i \in 1..Len(data.fields) |-> KV(Str(data.fields[i].k), data.fields[i].v)]))

DefaultOptions == [stored |-> TRUE, indexed |-> TRUE]

\* resolve_text_option taking the entry of the name whatever its kind.
resolve_text_option_any_kind(key, control) ==
    IF is_none(control) THEN DefaultOptions
    ELSE LET c == unwrap(control) IN
         IF key \notin DOMAIN c THEN DefaultOptions
         ELSE [stored |-> c[key].stored, indexed |-> c[key].indexed]

\* control: Option of a map name -> [tag, stored, indexed], tag "Text" | "Int"
resolve_text_option(key, control) ==
    IF is_none(control) THEN DefaultOptions
    ELSE LET c == unwrap(control) IN
         IF key \notin DOMAIN c THEN DefaultOptions
         ELSE IF c[key].tag = "Text"
              THEN [stored |-> c[key].stored, indexed |-> c[key].indexed]
              ELSE DefaultOptions

resolve_number_option(key, control) ==
    IF is_none(control) THEN DefaultOptions
    ELSE LET c == unwrap(control) IN
         IF key \notin DOMAIN c THEN DefaultOptions
         ELSE IF c[key].tag = "Int"
              THEN [stored |-> c[key].stored, indexed |-> c[key].indexed]
              ELSE DefaultOptions

\* The match arms with Bool among the numbers.
KindOf_bool_as_number(tag) ==
    CASE tag = "String" -> "Text"
      [] tag \in {"U64", "U32", "U16", "U8", "Bool"} -> "U64"
      [] tag \in {"I64", "I32", "I16", "I8"} -> "I64"
      [] tag \in {"F64", "F32"} -> "F64"
      [] tag = "Seq" -> "Bytes"
      [] OTHER -> "Unhandled"

\* The match arms of as_schema_builder: the field kind of a value variant.
KindOf(tag) ==
    CASE tag \in {"String", "Bool"} -> "Text"
      [] tag \in {"U64", "U32", "U16", "U8"} -> "U64"
      [] tag \in {"I64", "I32", "I16", "I8"} -> "I64"
      [] tag \in {"F64", "F32"} -> "F64"
      [] tag = "Seq" -> "Bytes"
      [] OTHER -> "Unhandled"

FieldEntry(name, kind, opt) ==
    [name |-> name, kind |-> kind, stored |-> opt.stored, indexed |-> opt.indexed]

\* The loop of as_schema_builder over the map's keys, from entry i on.
RECURSIVE add_fields(_, _, _, _)
add_fields(kv, control, i, builder) ==
    IF i > Len(kv) THEN Ok(builder)
    ELSE LET key == kv[i].k
             value == kv[i].v
             kind == KindOf(value.tag)
         IN IF key.tag # "String" THEN Err("keys were not string")
            ELSE IF kind = "Unhandled" THEN Err("Unhandled value types")
            ELSE LET opt == CASE kind = "Text" -> resolve_text_option(key.val, control)
                              [] kind = "Bytes" -> [stored |-> FALSE, indexed |-> FALSE]
                              [] OTHER -> resolve_number_option(key.val, control)
                 IN add_fields(kv, control, i + 1,
                               Append(builder, FieldEntry(key.val, kind, opt)))

\* as_schema_builder answering a value that is no map with an empty builder.
as_schema_builder_lenient(data, control) ==
    IF data.tag = "Map" THEN add_fields(data.val, control, 1, <<>>)
    ELSE Ok(<<>>)

\* as_schema_builder refusing a map without entries ("Empty json").
as_schema_builder_empty_is_error(data, control) ==
    IF data.tag = "Map" /\ Len(data.val) = 0 THEN Err("Empty json")
    ELSE IF data.tag = "Map" THEN add_fields(data.val, control, 1, <<>>)
    ELSE Err("Invalid JSON")

as_schema_builder(data, control) ==
    IF data.tag = "Map" THEN add_fields(data.val, control, 1, <<>>)
    ELSE Err("Invalid JSON")

\* A Schema is the sequence of its field entries; Field(i) is entry i + 1.
to_schema(data, control) == as_schema_builder(data, control)

\* SurferBuilder::add_struct: the schema inferred from a representative record.
add_struct(data) == to_schema(as_value(data).val, None).val

\* ------------------------------------------------- marshalling (engine side)
\* serde_json::to_string of a record: the object's members in declaration
\* order; a map whose keys are not strings is an error.
to_string(data) ==
    IF \E i \in 1..Len(data.fields) : data.fields[i].v.tag = "MapNonStringKey"
    THEN Err("key must be a string")
    ELSE Ok(data.fields)

\* Schema::get_field: the field of a name.
get_field(schema, name) ==
    IF \E i \in 1..Len(schema) : schema[i].name = name
    THEN Some((CHOOSE i \in 1..Len(schema) : schema[i].name = name) - 1)
    ELSE None

\* FieldType::value_from_json: a JSON string for a text field, a JSON number
\* for a numeric field of its kind; anything else is a type error.
value_from_json(kind, v) ==
    IF kind = "Text" /\ v.tag = "String" THEN Ok(v)
    ELSE IF kind \in {"U64", "I64", "F64"} /\ KindOf(v.tag) = kind THEN Ok(v)
    ELSE Err("value type mismatch")

\* The items of a JSON array, each a value of the field, from item i on.
RECURSIVE parse_items(_, _, _, _, _)
parse_items(kind, field, items, i, doc) ==
    IF i > Len(items) THEN Ok(doc)
    ELSE LET value == value_from_json(kind, items[i]) IN
         IF ~value.ok THEN value
         ELSE parse_items(kind, field, items, i + 1,
                          Append(doc, [field |-> field, value |-> value.val]))

\* The values a member gives its field: one for each item of an array (none
\* for an empty array), else the member's value.
parse_member(kind, field, v, doc) ==
    IF v.tag = "Seq" THEN parse_items(kind, field, v.val, 1, doc)
    ELSE parse_items(kind, field, <<v>>, 1, doc)

\* After a member: stop at its error, else go on with the next member.
RECURSIVE parse_members(_, _, _, _)
parse_rest(schema, members, i, added) ==
    IF ~added.ok THEN added ELSE parse_members(schema, members, i + 1, added.val)

\* Schema::parse_document: the JSON object's members in key order, each bound
\* to the schema's field of that name.
parse_members(schema, members, i, doc) ==
    IF i > Len(members) THEN Ok(doc)
    ELSE LET field == get_field(schema, members[i].k) IN
         IF is_none(field) THEN Err("no such field in schema")
         ELSE parse_rest(schema, members, i,
                         parse_member(schema[unwrap(field) + 1].kind, unwrap(field),
                                      members[i].v, doc))

parse_document(schema, json) ==
    parse_members(schema, SortByKey(json), 1, <<>>)

\* Document::get_sorted_field_values: the field values sorted by field, then
\* grouped by field.
group_by_field(sorted, order) ==
    [g \in 1..Len(order) |->
        [field |-> sorted[order[g]].field,
         values |-> LET Same(fv) == fv.field = sorted[order[g]].field
                    IN SelectSeq(sorted, Same)]]

first_of_field(sorted) ==
    group_by_field(sorted,
        SortIdx([i \in 1..Len(sorted) |-> i],
                {i \in 1..Len(sorted) : i = 1 \/ sorted[i].field # sorted[i - 1].field}))

get_sorted_field_values(document) ==
    first_of_field(StableSort(document, [i \in 1..Len(document) |-> document[i].field]))

\* The loop of Surfer::jsonify over the groups, from group i on.
RECURSIVE jsonify_fields(_, _, _, _)
jsonify_fields(schema, groups, i, field_map) ==
    IF i > Len(groups) THEN Ok(field_map)
    ELSE LET field_name == schema[groups[i].field + 1].name
             field_values == groups[i].values
         IN IF Len(field_values) = 0
            THEN Err("Field does not have any value")
            ELSE jsonify_fields(schema, groups, i + 1,
                                Append(field_map, KV(field_name, field_values[1].value)))

\* A map that keeps its entries in the order they were put in.
serialize_map_in_field_order(field_map) == field_map

\* Surfer::jsonify: name -> first value, serialized in key order (a BTreeMap).
serialize_map(field_map) ==
    IF ~field_map.ok THEN field_map ELSE Ok(SortByKey(field_map.val))

jsonify(schema, document) ==
    serialize_map(jsonify_fields(schema, get_sorted_field_values(document), 1, <<>>))

\* serde_json::from_str::<T>: every declared field must be a member of the
\* object, as a string; other members are ignored.
from_str(T, json) ==
    LET names == TypeFields(T)
        Has(n) == \E i \in 1..Len(json) : json[i].k = n /\ json[i].v.tag = "String"
        Get(n) == json[CHOOSE i \in 1..Len(json) : json[i].k = n].v
    IN IF \A j \in 1..Len(names) : Has(names[j])
       THEN Ok([type |-> T, fields |-> [j \in 1..Len(names) |-> KV(names[j], Get(names[j]))]])
       ELSE Err("missing field")

\* ------------------------------------------------------------ query (engine)
\* QueryParser::for_index(index, default_fields).parse_query(query): a query
\* is a sequence of tokens; "(" alone is a syntax error; every term is bound
\* to every default field, which must exist in the index's schema.
parse_query(schema, default_fields, query) ==
    IF "(" \in Range(query) THEN [kind |-> "Err", terms |-> <<>>, fields |-> <<>>]
    ELSE IF default_fields = <<>> THEN [kind |-> "Err", terms |-> <<>>, fields |-> <<>>]
    ELSE IF \E i \in 1..Len(default_fields) : default_fields[i] >= Len(schema)
         THEN [kind |-> "Panic", terms |-> <<>>, fields |-> <<>>]
    ELSE IF \E i \in 1..Len(default_fields) :
                \/ ~schema[default_fields[i] + 1].indexed
                \/ schema[default_fields[i] + 1].kind # "Text"
         THEN [kind |-> "Err", terms |-> <<>>, fields |-> <<>>]
    ELSE [kind |-> "Ok", terms |-> query, fields |-> default_fields]

\* The engine's score of a document for a parsed query: the occurrences of
\* the query's terms in the document's values of the query's fields.
doc_score(document, query) ==
    LET searched == {j \in 1..Len(document) :
                        /\ document[j].field \in Range(query.fields)
                        /\ document[j].value.tag = "String"}
        occurrences(t, j) ==
            {<<t, j, p>> : p \in {q \in 1..Len(document[j].value.val) :
                                     document[j].value.val[q] = query.terms[t]}}
    IN Cardinality(UNION {occurrences(x[1], x[2]) :
                            x \in (1..Len(query.terms)) \X searched})

\* Searcher::search(query, TopDocs::with_limit(limit)): the `limit` best
\* scoring documents, best first, equal scores in address order.
rank_of(scores, a) ==
    1 + Cardinality({b \in DOMAIN scores :
                        /\ scores[b] > 0
                        /\ scores[b] > scores[a] \/ (scores[b] = scores[a] /\ b < a)})

hit_at(scores, a) == [score |-> scores[a], address |-> a]

top_docs_with_limit(scores, limit) ==
    [i \in 1..Min(limit, Cardinality({a \in DOMAIN scores : scores[a] > 0})) |->
        hit_at(scores, CHOOSE a \in DOMAIN scores : scores[a] > 0 /\ rank_of(scores, a) = i)]

search(docs, query, limit) ==
    top_docs_with_limit([a \in 1..Len(docs) |-> doc_score(docs[a], query)], limit)

\* Searcher::doc(address): the stored fields of the document.
stored_doc(schema, document) ==
    LET Stored(fv) == schema[fv.field + 1].stored IN SelectSeq(document, Stored)

\* ------------------------------------------------------------------- state
VARIABLES
    home,       \* Surfer.home
    disk,       \* home/<name>: None, or Some([schema, docs]) the committed store
    indexes,    \* Surfer.indexes: name -> the opened Index (its directory)
    fields,     \* Surfer.fields: name -> Vec<Field>
    readers,    \* Surfer.readers: name -> Option<IndexReader>
    writers,    \* Surfer.writers: name -> Option<IndexWriter>
    ret,        \* the last call and what it returned
    ops,        \* history: the calls the last call made on its writer, in order
    committed,  \* history: name -> every document ever committed under home
    inherited,  \* history: name -> documents on disk when this Surfer was built
    wopens,     \* history: name -> writers opened by this Surfer
    ropens,     \* history: name -> readers opened by this Surfer
    same        \* history: how the last read compares with the same read before it

vars == <<home, disk, indexes, fields, readers, writers, ret, ops, committed,
          inherited, wopens, ropens, same>>

Names == {"a", "b"}

\* The home the builder is given (set_home), as its characters.
DefaultHome == <<"t", "m", "p">>

\* Index::schema(): the schema of the opened store.
index_schema(name) == unwrap(disk[name]).schema

\* A searcher that never sees a commit made after the Surfer was built.
searcher_at_construction(name) ==
    SubSeq(unwrap(disk[name]).docs, 1, inherited[name])

\* Reader::searcher(): the documents committed to the store.
searcher(name) == unwrap(disk[name]).docs

Call(op, name, payload, query, limit, score, T, kind, list, opened) ==
    [op |-> op, name |-> name, payload |-> payload, query |-> query, limit |-> limit,
     score |-> score, T |-> T, kind |-> kind, list |-> list, opened |-> opened]

\* ------------------------------------------------------------- construction
\* initialize_mmap without the path.exists() branch: the store is created anew.
initialize_mmap_recreate(dir, schema) ==
    Some([schema |-> schema, docs |-> <<>>])

\* initialize_mmap: open the directory's store when it exists, else create
\* one with the schema given.
initialize_mmap(dir, schema) ==
    IF is_some(dir) THEN dir
    ELSE Some([schema |-> schema, docs |-> <<>>])

\* extract_fields: the fields of the builder's schema.
extract_fields(schemas) ==
    [name \in DOMAIN schemas |-> [i \in 1..Len(schemas[name]) |-> i - 1]]

\* Handles opened at construction, before any call.
eagerly_opened(schemas) ==
    [name \in DOMAIN schemas |-> Some([id |-> 0, pending |-> <<>>, calls |-> <<>>])]

\* Lines 318-325: the reader and the writer slot of every name, both None.
unopened(schemas) == [name \in DOMAIN schemas |-> None]

\* Surfer::try_from(builder), the Surfer before it (if any) dropped.
New(schemas) ==
    /\ home' = home
    /\ disk' = [n \in Names |->
                  IF n \in DOMAIN schemas THEN initialize_mmap(disk[n], schemas[n])
                  ELSE disk[n]]
    /\ indexes' = [name \in DOMAIN schemas |-> [dir |-> name]]
    /\ fields' = extract_fields(schemas)
    /\ readers' = unopened(schemas)
    /\ writers' = unopened(schemas)
    /\ ret' = Call("new", "", <<>>, <<>>, None, None, "", "Ok", <<>>, FALSE)
    /\ ops' = <<>>
    /\ inherited' = [n \in Names |-> IF is_some(disk[n]) THEN Len(unwrap(disk[n]).docs) ELSE 0]
    /\ wopens' = [n \in Names |-> 0]
    /\ ropens' = [n \in Names |-> 0]
    /\ same' = "na"
    /\ UNCHANGED committed

\* ------------------------------------------------------------------ inserts
\* open_index_writer(index): a writer with nothing added yet.  Handle ids
\* count the handles this Surfer opened on the collection, in opening order;
\* `calls` are the calls made on the handle by the insert under way.
open_index_writer(name) ==
    [id |-> wopens[name] + ropens[name] + 1, pending |-> <<>>, calls |-> <<>>]

WriterCall(call, document) == [call |-> call, document |-> document]

\* add_document placing the document before the ones added earlier.
add_document_first(writer, document) ==
    [writer EXCEPT !.pending = <<document>> \o @,
                   !.calls = <<WriterCall("add_document", document)>> \o @]

\* IndexWriter::add_document
add_document(writer, document) ==
    [writer EXCEPT !.pending = Append(@, document),
                   !.calls = Append(@, WriterCall("add_document", document))]

\* IndexWriter::commit: everything added since the last commit reaches the store.
commit(docs, writer) == docs \o writer.pending

\* ensure_writer without the is_none test: a writer is opened on every insert.
ensure_writer_reopen(name) == open_index_writer(name)

\* The writer slot of `name` after lines 99-105 / 121-127: opened when absent.
ensure_writer(name) ==
    IF is_none(writers[name]) THEN open_index_writer(name) ELSE unwrap(writers[name])

\* An insert that fills the writer slot of every collection with its writer.
Written_every_slot(name, writer, committing) ==
    /\ writers' = [n \in DOMAIN writers |->
                      Some([writer EXCEPT !.pending = IF committing THEN <<>> ELSE @,
                                          !.calls = <<>>])]
    /\ ops' = IF committing THEN Append(writer.calls, WriterCall("commit", <<>>))
              ELSE writer.calls
    /\ wopens' = [wopens EXCEPT ![name] =
                     IF is_none(writers[name]) \/ unwrap(writers[name]).id # writer.id
                     THEN @ + 1 ELSE @]
    /\ disk' = IF committing
               THEN [disk EXCEPT ![name] =
                        Some([unwrap(@) EXCEPT !.docs = commit(@, writer)])]
               ELSE disk
    /\ committed' = IF committing
                    THEN [committed EXCEPT ![name] = @ \o writer.pending]
                    ELSE committed

\* What an insert leaves behind: the writer slot filled with `writer`, and the
\* store committed when the call got to writer.commit().
Written(name, writer, committing) ==
    /\ writers' = [writers EXCEPT ![name] =
                      Some([writer EXCEPT !.pending = IF committing THEN <<>> ELSE @,
                                          !.calls = <<>>])]
    /\ ops' = IF committing THEN Append(writer.calls, WriterCall("commit", <<>>))
              ELSE writer.calls
    /\ wopens' = [wopens EXCEPT ![name] =
                     IF is_none(writers[name]) \/ unwrap(writers[name]).id # writer.id
                     THEN @ + 1 ELSE @]
    /\ disk' = IF committing
               THEN [disk EXCEPT ![name] =
                        Some([unwrap(@) EXCEPT !.docs = commit(@, writer)])]
               ELSE disk
    /\ committed' = IF committing
                    THEN [committed EXCEPT ![name] = @ \o writer.pending]
                    ELSE committed

NotWritten == ops' = <<>> /\ UNCHANGED <<disk, writers, wopens, committed>>

\* An insert that reports a name with no writer slot as an error.
insert_unknown_err == "Err"

\* Lines 92-94 / 114-116: what an insert returns for a name with no writer slot.
insert_unknown == "Ok"

\* Surfer::insert_struct
insert_struct(name, data) ==
    LET json == to_string(data)
        Return(kind, opened) ==
            ret' = Call("insert_struct", name, <<data>>, <<>>, None, None, "", kind, <<>>, opened)
    IN /\ IF ~json.ok THEN Return("Err", FALSE) /\ NotWritten
          ELSE IF name \notin DOMAIN writers THEN Return(insert_unknown, FALSE) /\ NotWritten
          ELSE LET schema == index_schema(name)
                   opened == is_none(writers[name])
                   writer == ensure_writer(name)
                   document == parse_document(schema, json.val)
               IN IF ~document.ok
                  THEN Return("Err", opened) /\ Written(name, writer, FALSE)
                  ELSE Return("Ok", opened)
                       /\ Written(name, add_document(writer, document.val), TRUE)
       /\ same' = "na"
       /\ UNCHANGED <<home, indexes, fields, readers, inherited, ropens>>

\* The loop passing over a record that fails instead of returning its error.
RECURSIVE add_payload_skipping(_, _, _, _)
add_payload_skipping(schema, writer, payload, i) ==
    IF i > Len(payload) THEN [ok |-> TRUE, writer |-> writer]
    ELSE IF ~to_string(payload[i]).ok
         THEN add_payload_skipping(schema, writer, payload, i + 1)
    ELSE IF ~parse_document(schema, to_string(payload[i]).val).ok
         THEN add_payload_skipping(schema, writer, payload, i + 1)
    ELSE add_payload_skipping(schema,
             add_document(writer, parse_document(schema, to_string(payload[i]).val).val),
             payload, i + 1)

\* The loop of insert_structs over the payload, from record i on: the writer
\* after the loop, or after the record that failed.
RECURSIVE add_payload(_, _, _, _)
add_payload(schema, writer, payload, i) ==
    IF i > Len(payload) THEN [ok |-> TRUE, writer |-> writer]
    ELSE LET json == to_string(payload[i]) IN
         IF ~json.ok THEN [ok |-> FALSE, writer |-> writer]
         ELSE LET document == parse_document(schema, json.val) IN
              IF ~document.ok THEN [ok |-> FALSE, writer |-> writer]
              ELSE add_payload(schema, add_document(writer, document.val), payload, i + 1)

\* Surfer::insert_structs
insert_structs(name, payload) ==
    LET Return(kind, opened) ==
            ret' = Call("insert_structs", name, payload, <<>>, None, None, "", kind, <<>>, opened)
    IN /\ IF name \notin DOMAIN writers THEN Return(insert_unknown, FALSE) /\ NotWritten
          ELSE LET schema == index_schema(name)
                   opened == is_none(writers[name])
                   added == add_payload(schema, ensure_writer(name), payload, 1)
               IN IF ~added.ok
                  THEN Return("Err", opened) /\ Written(name, added.writer, FALSE)
                  ELSE Return("Ok", opened) /\ Written(name, added.writer, TRUE)
       /\ same' = "na"
       /\ UNCHANGED <<home, indexes, fields, readers, inherited, ropens>>

\* -------------------------------------------------------------------- reads
\* open_index_reader(index)
open_index_reader(name) == [id |-> wopens[name] + ropens[name] + 1]

\* The score test with <= for <: a hit at exactly the score is skipped too.
below_or_equal_score(doc_score_, score) == is_some(score) /\ doc_score_ <= unwrap(score)

\* Lines 203 / 249: the hit is skipped.
below_score(doc_score_, score) == is_some(score) /\ doc_score_ < unwrap(score)

\* The loop over top_docs (lines 201-209 / 247-256), from hit i on.  T = ""
\* is read_string; otherwise each payload is deserialized to T and unwrapped.
RECURSIVE collect(_, _, _, _, _, _, _)
collect(schema, docs, top_docs, score, T, i, out) ==
    IF i > Len(top_docs) THEN [kind |-> "Some", list |-> out]
    ELSE IF below_score(top_docs[i].score, score)
         THEN collect(schema, docs, top_docs, score, T, i + 1, out)
    ELSE LET doc == jsonify(schema, stored_doc(schema, docs[top_docs[i].address])) IN
         IF ~doc.ok THEN [kind |-> "Err", list |-> <<>>]
         ELSE IF T = "" THEN collect(schema, docs, top_docs, score, T, i + 1,
                                     Append(out, doc.val))
         ELSE LET data == from_str(T, doc.val) IN
              IF ~data.ok THEN [kind |-> "Panic", list |-> <<>>]
              ELSE collect(schema, docs, top_docs, score, T, i + 1, Append(out, data.val))

\* A read that takes the default limit whatever the caller gives.
limit_ignored(limit) == DefaultLimit

\* The limit of a read: the caller's, or ten.
limit_or_default(limit) == IF is_some(limit) THEN unwrap(limit) ELSE DefaultLimit

\* A read that returns before searching when it has just opened the reader.
read_docs_unsearched(name, default_fields, query, limit, score, T) ==
    IF is_none(readers[name]) THEN [kind |-> "Some", list |-> <<>>]
    ELSE IF parse_query(index_schema(name), default_fields, query).kind # "Ok"
         THEN [kind |-> parse_query(index_schema(name), default_fields, query).kind,
               list |-> <<>>]
    ELSE IF limit_or_default(limit) = 0 THEN [kind |-> "Panic", list |-> <<>>]
    ELSE collect(index_schema(name), searcher(name),
                 search(searcher(name),
                        parse_query(index_schema(name), default_fields, query),
                        limit_or_default(limit)),
                 score, T, 1, <<>>)

\* Lines 189-210 / 235-257: bind the query to the default fields, search the
\* top `limit`, filter by score, reconstruct.
read_docs(name, default_fields, query, limit, score, T) ==
    LET schema == index_schema(name)
        q == parse_query(schema, default_fields, query)
        lim == limit_or_default(limit)
    IN IF q.kind # "Ok" THEN [kind |-> q.kind, list |-> <<>>]
       ELSE IF lim = 0 THEN [kind |-> "Panic", list |-> <<>>]
       ELSE collect(schema, searcher(name), search(searcher(name), q, lim), score, T, 1, <<>>)

\* A read that answers a name with no reader slot like an empty collection.
read_unknown_empty == [kind |-> "Some", list |-> <<>>]

\* Lines 169-171 / 175-177: what a read returns for a name with no reader slot.
read_unknown == [kind |-> "None", list |-> <<>>]

\* How a read compares with the call before it.
Compare(call) ==
    IF /\ ret.op = call.op /\ ret.name = call.name /\ ret.query = call.query
       /\ ret.limit = call.limit /\ ret.score = call.score /\ ret.T = call.T
    THEN IF ret.kind = call.kind /\ ret.list = call.list
         THEN (IF ret.opened THEN "eq_opened" ELSE "eq_cached")
         ELSE "neq"
    ELSE "na"

\* A read that gives a name without a slot an empty reader slot.
Read_registering(op, name, query, limit, score, T) ==
    LET Return(kind, list, opened) ==
            LET call == Call(op, name, <<>>, query, limit, score, T, kind, list, opened)
            IN ret' = call /\ same' = Compare(call)
    IN /\ IF name \notin DOMAIN readers
          THEN /\ Return(read_unknown.kind, read_unknown.list, FALSE)
               /\ readers' = [n \in DOMAIN readers \cup {name} |->
                                 IF n \in DOMAIN readers THEN readers[n] ELSE None]
               /\ UNCHANGED ropens
          ELSE IF name \notin DOMAIN indexes
          THEN Return(read_unknown.kind, read_unknown.list, FALSE)
               /\ UNCHANGED <<readers, ropens>>
          ELSE LET opened == is_none(readers[name])
                   out == read_docs(name, fields[name], query, limit, score, T)
               IN /\ readers' = [readers EXCEPT ![name] =
                                    IF opened THEN Some(open_index_reader(name)) ELSE @]
                  /\ ropens' = [ropens EXCEPT ![name] = IF opened THEN @ + 1 ELSE @]
                  /\ Return(out.kind, out.list, opened)
       /\ ops' = <<>>
       /\ UNCHANGED <<home, disk, indexes, fields, writers, committed, inherited, wopens>>

Read(op, name, query, limit, score, T) ==
    LET Return(kind, list, opened) ==
            LET call == Call(op, name, <<>>, query, limit, score, T, kind, list, opened)
            IN ret' = call /\ same' = Compare(call)
    IN /\ IF name \notin DOMAIN readers
          THEN Return(read_unknown.kind, read_unknown.list, FALSE)
               /\ UNCHANGED <<readers, ropens>>
          ELSE IF name \notin DOMAIN indexes
          THEN Return(read_unknown.kind, read_unknown.list, FALSE)
               /\ UNCHANGED <<readers, ropens>>
          ELSE LET opened == is_none(readers[name])
                   out == read_docs(name, fields[name], query, limit, score, T)
               IN /\ readers' = [readers EXCEPT ![name] =
                                    IF opened THEN Some(open_index_reader(name)) ELSE @]
                  /\ ropens' = [ropens EXCEPT ![name] = IF opened THEN @ + 1 ELSE @]
                  /\ Return(out.kind, out.list, opened)
       /\ ops' = <<>>
       /\ UNCHANGED <<home, disk, indexes, fields, writers, committed, inherited, wopens>>

\* Surfer::read_string
read_string(name, query, limit, score) ==
    Read("read_string", name, query, limit, score, "")

\* Surfer::read_structs::<T>
read_structs(name, query, limit, score, T) ==
    Read("read_structs", name, query, limit, score, T)

\* --------------------------------------------------------------- the inputs
R1 == OldMan(<<"sea">>, <<"man">>)
R2 == OldMan(<<"man">>, <<"man">>)
P1 == Pamphlet(<<"sea">>)

\* The schemas a builder is given: inferred from a representative record.
OldManSchema == add_struct(R1)
PamphletSchema == add_struct(P1)
\* SurferBuilder::add_schema: a schema the caller built, title before body.
TitleFirstSchema ==
    <<FieldEntry("title", "Text", DefaultOptions), FieldEntry("body", "Text", DefaultOptions)>>

\* SurferBuilder.schemas: collection "a" always, "b" when registered.
BuildersOver(schemas) == UNION {[D -> schemas] : D \in {{"a"}, {"a", "b"}}}

PayloadsOver(records) == UNION {[1..k -> records] : k \in 0..MaxBatch}

\* Documents under home, committed or pending in a writer.
Held ==
    LET Docs(n) == IF is_some(disk[n]) THEN Len(unwrap(disk[n]).docs) ELSE 0
        Pending(n) == IF n \in DOMAIN writers /\ is_some(writers[n])
                      THEN Len(unwrap(writers[n]).pending) ELSE 0
    IN Docs("a") + Docs("b") + Pending("a") + Pending("b")

Fresh(schemas) ==
    /\ home = DefaultHome
    /\ disk = [n \in Names |-> IF n \in DOMAIN schemas
                               THEN initialize_mmap(None, schemas[n]) ELSE None]
    /\ indexes = [name \in DOMAIN schemas |-> [dir |-> name]]
    /\ fields = extract_fields(schemas)
    /\ readers = unopened(schemas)
    /\ writers = unopened(schemas)
    /\ ret = Call("new", "", <<>>, <<>>, None, None, "", "Ok", <<>>, FALSE)
    /\ ops = <<>>
    /\ committed = [n \in Names |-> <<>>]
    /\ inherited = [n \in Names |-> 0]
    /\ wopens = [n \in Names |-> 0]
    /\ ropens = [n \in Names |-> 0]
    /\ same = "na"

\* The calls a caller makes, over the given inputs, holding at most `max`
\* documents.
NextOver(builders, names, records, payloads, queries, limits, scores, types, max) ==
    \/ \E schemas \in builders : New(schemas)
    \/ \E name \in names, data \in records :
          Held + 1 <= max /\ insert_struct(name, data)
    \/ \E name \in names, payload \in payloads :
          Held + Len(payload) <= max /\ insert_structs(name, payload)
    \/ \E name \in names, query \in queries, limit \in limits, score \in scores :
          read_string(name, query, limit, score)
    \/ \E name \in names, query \in queries, limit \in limits, score \in scores, T \in types :
          read_structs(name, query, limit, score, T)

\* Spec: the lifecycle of two collections of one schema, with records that
\* fail to serialize (Atlas) or to parse (R1), reads that fail to parse, take
\* limit 0 or deserialize to a type the documents do not fit.
Builders == BuildersOver({PamphletSchema})
Init == \E schemas \in Builders : Fresh(schemas)
Next ==
    NextOver(Builders, Names, {P1, R1, Atlas}, PayloadsOver({P1, R1, Atlas}),
             {<<"sea">>, <<"(">>}, {None, Some(0)}, {None}, {"Pamphlet", "OldMan"}, MaxDocs)
Spec == Init /\ [][Next]_vars

\* SpecSchema: collection "a" built, and built again, from either schema.
SchemaBuilders == [{"a"} -> {OldManSchema, PamphletSchema}]
InitSchema == \E schemas \in SchemaBuilders : Fresh(schemas)
NextSchema ==
    NextOver(SchemaBuilders, {"a"}, {R1, P1}, {<<P1>>},
             {<<"sea">>, <<"man">>}, {None}, {None}, {"Pamphlet", "OldMan"}, MaxDocs)
SpecSchema == InitSchema /\ [][NextSchema]_vars

\* SpecLimit: collection "a" filled with one record past the default limit.
LimitBuilders == [{"a"} -> {OldManSchema}]
InitLimit == \E schemas \in LimitBuilders : Fresh(schemas)
NextLimit ==
    NextOver(LimitBuilders, {"a"}, {R1}, {<<R1, R1>>},
             {<<"sea">>, <<"whale">>}, {None, Some(1), Some(DefaultLimit + 1)}, {None},
             {"OldMan"}, MaxBulkDocs)
SpecLimit == InitLimit /\ [][NextLimit]_vars

\* SpecScore: collection "a" holding records of different scores.
InitScore == InitLimit
NextScore ==
    NextOver(LimitBuilders, {"a"}, {R1, R2}, {<<R2, R1>>},
             {<<"man">>}, {None, Some(1), Some(2)}, {None, Some(1), Some(2)},
             {"OldMan"}, MaxScoreDocs)
SpecScore == InitScore /\ [][NextScore]_vars

\* SpecBytes: collection "a" built from a record with a byte vector, and
\* records with an empty and a non-empty vector inserted.
V0 == DataVec(<<"sea">>, <<>>)
V1 == DataVec(<<"sea">>, <<U8(87), U8(111)>>)
V2 == DataVec(<<"man">>, <<U8(87)>>)
DataVecSchema == add_struct(V1)
BytesBuilders == [{"a"} -> {DataVecSchema}]
InitBytes == \E schemas \in BytesBuilders : Fresh(schemas)
NextBytes ==
    NextOver(BytesBuilders, {"a"}, {V0, V1, V2}, {<<V0, V1>>, <<V2, V0>>},
             {<<"sea">>}, {None, Some(1)}, {None}, {"DataVec"}, MaxDocs)
SpecBytes == InitBytes /\ [][NextBytes]_vars

\* SpecOrder: collection "a" built from a schema the caller wrote, whose
\* fields are not in name order, or from the inferred one.
OrderBuilders == [{"a"} -> {TitleFirstSchema, OldManSchema}]
InitOrder == \E schemas \in OrderBuilders : Fresh(schemas)
NextOrder ==
    NextOver(OrderBuilders, {"a"}, {R1, R2}, {<<R2, R1>>},
             {<<"sea">>, <<"man">>}, {None}, {None}, {"OldMan"}, MaxDocs)
SpecOrder == InitOrder /\ [][NextOrder]_vars

\* ------------------------------------------------- the functions of utils.rs
\* No Surfer takes part: the registry's variables stay as a builder without
\* schemas leaves them.
Unbuilt ==
    /\ home = DefaultHome
    /\ disk = [n \in Names |-> None]
    /\ indexes = <<>> /\ fields = <<>> /\ readers = <<>> /\ writers = <<>>
    /\ ops = <<>>
    /\ committed = [n \in Names |-> <<>>]
    /\ inherited = [n \in Names |-> 0]
    /\ wopens = [n \in Names |-> 0]
    /\ ropens = [n \in Names |-> 0]
    /\ same = "na"

Surfer == <<home, disk, indexes, fields, readers, writers, ops, committed, inherited,
            wopens, ropens, same>>

\* The variants of serde_value::Value the match of as_schema_builder names,
\* and some it does not (Unit and Option are what a null serializes to).
TableTags ==
    {"String", "Bool", "U8", "U16", "U32", "U64", "I8", "I16", "I32", "I64",
     "F32", "F64", "Seq"}
OtherTags == {"Unit", "Option", "Map"}

Leaf(tag) == [tag |-> tag, val |-> <<>>]

\* Map keys: two strings and a number.
MapKeys == {Str("body"), Str("title"), [tag |-> "U64", val |-> "7"]}

\* Entries a map may have in SpecInfer.
MaxEntries == 2

\* The maps of at most MaxEntries entries with different keys, in every
\* iteration order, and some values that are no maps.
Values ==
    LET entries == {KV(k, Leaf(t)) : k \in MapKeys, t \in TableTags \cup OtherTags}
        seqs == UNION {[1..n -> entries] : n \in 0..MaxEntries}
    IN {[tag |-> "Map", val |-> kv] :
            kv \in {q \in seqs : \A i, j \in 1..Len(q) : i # j => q[i].k # q[j].k}}
       \cup {Leaf("Unit"), Leaf("String"), Leaf("Seq")}

\* Control tables: none, or one that leaves "title" unstored.
Controls ==
    {None, Some([n \in {"title"} |-> [tag |-> "Text", stored |-> FALSE, indexed |-> TRUE]])}

\* to_schema(data, control) applied to the value drawn.
to_schema_call ==
    /\ ret.op = "value"
    /\ ret' = [ret EXCEPT !.op = "to_schema", !.result = to_schema(ret.data, ret.control)]
    /\ UNCHANGED Surfer

InitInfer ==
    /\ Unbuilt
    /\ \E data \in Values, control \in Controls :
          ret = [op |-> "value", data |-> data, control |-> control, result |-> <<>>]
NextInfer == to_schema_call
SpecInfer == InitInfer /\ [][NextInfer]_vars

\* Control tables over the names "title" and "body": every table with an
\* entry, of either kind and any options, for some of them.
Tables ==
    UNION {[D -> [tag : {"Text", "Int"}, stored : BOOLEAN, indexed : BOOLEAN]] :
              D \in SUBSET {"title", "body"}}

resolve_text_option_call ==
    /\ ret.op = "value"
    /\ ret' = [ret EXCEPT !.op = "resolve_text_option",
                          !.result = resolve_text_option(ret.key, ret.control)]
    /\ UNCHANGED Surfer

resolve_number_option_call ==
    /\ ret.op = "value"
    /\ ret' = [ret EXCEPT !.op = "resolve_number_option",
                          !.result = resolve_number_option(ret.key, ret.control)]
    /\ UNCHANGED Surfer

InitOptions ==
    /\ Unbuilt
    /\ \E key \in {"title", "body", "dummy"}, control \in {None} \cup {Some(c) : c \in Tables} :
          ret = [op |-> "value", key |-> key, control |-> control, result |-> <<>>]
NextOptions == resolve_text_option_call \/ resolve_number_option_call
SpecOptions == InitOptions /\ [][NextOptions]_vars

\* ------------------------------------------------------------- which_index
\* Strings are their characters here; "/" is the path separator.
starts_with(s, prefix) ==
    Len(prefix) <= Len(s) /\ SubSeq(s, 1, Len(prefix)) = prefix

is_absolute(path) == starts_with(path, <<"/">>)

\* Path::new(head).join(tail): an absolute tail replaces head; otherwise tail
\* is appended, after a separator unless head is empty or ends with one.
\* path.to_str() is Some for a path made of two strs.
join(head, tail) ==
    IF is_absolute(tail) THEN Some(tail)
    ELSE IF head = <<>> \/ head[Len(head)] = "/" THEN Some(head \o tail)
    ELSE Some(head \o <<"/">> \o tail)

\* which_index without the test for the home prefix.
which_index_joined(name) ==
    IF name \notin DOMAIN indexes THEN None ELSE join(home, name)

\* Surfer::which_index
which_index(name) ==
    IF name \notin DOMAIN indexes THEN None
    ELSE IF starts_with(name, home) THEN Some(name)
    ELSE join(home, name)

which_index_call(name) ==
    /\ ret' = Call("which_index", name, <<>>, <<>>, None, None, "",
                   IF is_some(which_index(name)) THEN "Some" ELSE "None",
                   which_index(name), FALSE)
    /\ ops' = <<>>
    /\ same' = "na"
    /\ UNCHANGED <<home, disk, indexes, fields, readers, writers, committed, inherited,
                   wopens, ropens>>

\* Characters a collection name may have in SpecPath.
MaxNameLen == 2

\* Names and homes as characters: relative, absolute, with the home as a
\* prefix; a name has a character that is no separator.
PathNames ==
    {n \in UNION {[1..k -> {"t", "a", "/"}] : k \in 1..MaxNameLen} :
        \E i \in 1..Len(n) : n[i] # "/"}
Homes == {<<"t">>, <<"t", "/">>}

\* SpecPath: a Surfer built under one of the homes with no collection or one,
\* of any name, and which_index called with any name.
\* A Surfer built under home h with the collections D, of the names `all`.
BuiltAt(h, D, all) ==
    /\ home = h
    /\ disk = [n \in all |-> IF n \in D THEN initialize_mmap(None, PamphletSchema)
                              ELSE None]
    /\ indexes = [name \in D |-> [dir |-> name]]
    /\ fields = extract_fields([name \in D |-> PamphletSchema])
    /\ readers = unopened([name \in D |-> PamphletSchema])
    /\ writers = unopened([name \in D |-> PamphletSchema])
    /\ ret = Call("new", <<>>, <<>>, <<>>, None, None, "", "Ok", <<>>, FALSE)
    /\ ops = <<>>
    /\ committed = [n \in all |-> <<>>]
    /\ inherited = [n \in all |-> 0]
    /\ wopens = [n \in all |-> 0]
    /\ ropens = [n \in all |-> 0]
    /\ same = "na"
InitPath ==
    \E h \in Homes, D \in {{}} \cup {{n} : n \in PathNames} : BuiltAt(h, D, PathNames)
NextPath == \E name \in PathNames : which_index_call(name)
SpecPath == InitPath /\ [][NextPath]_vars

\* SpecKeys: a Surfer built with none, one or both of two collections, one
\* named under the home, and every call made with either name.
KeyA == <<"a">>
KeyB == <<"t", "a">>
KeyNames == {KeyA, KeyB}
HeldIn(n) ==
    (IF is_some(disk[n]) THEN Len(unwrap(disk[n]).docs) ELSE 0)
    + (IF n \in DOMAIN writers /\ is_some(writers[n])
       THEN Len(unwrap(writers[n]).pending) ELSE 0)
InitKeys == \E D \in SUBSET KeyNames : BuiltAt(<<"t">>, D, KeyNames)
NextKeys ==
    \/ \E name \in KeyNames : which_index_call(name)
    \/ \E name \in KeyNames, data \in {P1, R1} :
          HeldIn(KeyA) + HeldIn(KeyB) + 1 <= MaxDocs /\ insert_struct(name, data)
    \/ \E name \in KeyNames, payload \in {<<P1>>, <<P1, R1>>} :
          HeldIn(KeyA) + HeldIn(KeyB) + Len(payload) <= MaxDocs
          /\ insert_structs(name, payload)
    \/ \E name \in KeyNames, query \in {<<"sea">>, <<"(">>} :
          read_string(name, query, None, None)
    \/ \E name \in KeyNames, query \in {<<"sea">>} :
          read_structs(name, query, None, None, "Pamphlet")
SpecKeys == InitKeys /\ [][NextKeys]_vars

\* ------------------------------------------------------------------- claims
IsInsert(call) == call.op \in {"insert_struct", "insert_structs"}
IsRead(call) == call.op \in {"read_string", "read_structs"}
Registered(name) == name \in DOMAIN indexes

\* The tokens of a record's string fields.
TextTerms(data) ==
    UNION {Range(data.fields[i].v.val) :
              i \in {j \in 1..Len(data.fields) : data.fields[j].v.tag = "String"}}

\* The documents of a store with a term of the query in some field.
Mentioning(docs, query) ==
    {a \in 1..Len(docs) :
        \E j \in 1..Len(docs[a]) : Range(docs[a][j].value.val) \cap Range(query) # {}}

\* A document with a value for every field of the schema.
Complete(schema, document) ==
    \A f \in 1..Len(schema) : \E j \in 1..Len(document) : document[j].field = f - 1

\* C1: round trip. After insert_one(name, R) returned success for a record R
\* whose inferred schema is the collection's, the read_as_struct of R's type
\* that follows it, with a query whose terms all appear in R's text fields,
\* default limit and no min_score, over fewer than ten documents mentioning a
\* term (each a document of that shape), returns Some(list) with R in the list.
C1_RoundTrip ==
    [][(/\ ret.op = "insert_struct" /\ ret.kind = "Ok" /\ Registered(ret.name)
        /\ add_struct(ret.payload[1]) = index_schema(ret.name)
        /\ ret'.op = "read_structs" /\ ret'.name = ret.name
        /\ ret'.T = ret.payload[1].type
        /\ ret'.limit = None /\ ret'.score = None
        /\ Range(ret'.query) \subseteq TextTerms(ret.payload[1])
        /\ Cardinality(Mentioning(searcher(ret.name), ret'.query)) < DefaultLimit
        /\ \A a \in 1..Len(searcher(ret.name)) :
              Complete(index_schema(ret.name), searcher(ret.name)[a]))
       => (ret'.kind = "Some" /\ ret.payload[1] \in Range(ret'.list))]_vars

\* The query is one the parser bound to the collection's default fields accepts.
Parses(call) ==
    parse_query(index_schema(call.name), fields[call.name], call.query).kind = "Ok"

\* C2 as claimed: a read returns None for a name never registered and
\* Some(list) for a registered name and a query that parses.
C2_ReadNames_Claimed ==
    IsRead(ret) =>
        /\ ~Registered(ret.name) => ret.kind = "None"
        /\ (Registered(ret.name) /\ Parses(ret)) => ret.kind = "Some"

\* C2, amended: a read returns None for a name never registered; for a
\* registered name it never returns None, and for a query that parses it
\* returns Some(list) unless it panics, which only limit 0 or (read_as_struct)
\* a document that does not deserialize to the target type brings about.
C2_ReadNames ==
    IsRead(ret) =>
        /\ ~Registered(ret.name) => ret.kind = "None"
        /\ Registered(ret.name) => ret.kind # "None"
        /\ (Registered(ret.name) /\ Parses(ret)) =>
              /\ ret.kind \in {"Some", "Panic"}
              /\ ret.kind = "Panic" =>
                    \/ ret.limit = Some(0)
                    \/ /\ ret.op = "read_structs"
                       /\ \E a \in 1..Len(searcher(ret.name)) :
                             ~from_str(ret.T, jsonify(index_schema(ret.name),
                                 stored_doc(index_schema(ret.name),
                                            searcher(ret.name)[a])).val).ok
              /\ (ret.op = "read_string" /\ ret.limit # Some(0)) => ret.kind = "Some"

\* C2's case: reads of both outcomes exist; here a registered, non-empty
\* collection read with a non-empty list, while "b" was never registered.
C2_Witness ==
    /\ IsRead(ret) /\ Registered(ret.name) /\ ret.kind = "Some" /\ Len(ret.list) > 0
    /\ ~Registered("b")

\* C3 as claimed: an insert on a name never registered returns success and
\* changes nothing.
C3_UnknownInsert_Claimed ==
    [][(IsInsert(ret') /\ ret'.name \notin DOMAIN writers) =>
          /\ ret'.kind = "Ok"
          /\ UNCHANGED <<disk, indexes, fields, readers, writers, committed>>]_vars

\* C3, amended: an insert on a name never registered changes nothing;
\* insert_many returns success, and insert_one returns success when the record
\* serializes and the serialization error when it does not.
C3_UnknownInsert ==
    [][(IsInsert(ret') /\ ret'.name \notin DOMAIN writers) =>
          /\ ret'.kind = "Ok" <=>
                (ret'.op = "insert_structs" \/ to_string(ret'.payload[1]).ok)
          /\ ~ret'.opened
          /\ UNCHANGED <<disk, indexes, fields, readers, writers, committed,
                         wopens, ropens>>]_vars

\* C3's case: a batch was inserted under a name never registered, beside a
\* registered collection that holds a document.
C3_Witness ==
    /\ ret.op = "insert_structs" /\ ~Registered(ret.name) /\ Len(ret.payload) > 0
    /\ ret.kind = "Ok"
    /\ Len(searcher("a")) > 0

\* The documents of `docs` the parsed query of a read scores above zero.
Matching(docs, call) ==
    {a \in 1..Len(docs) :
        doc_score(docs[a], parse_query(index_schema(call.name), fields[call.name],
                                       call.query)) > 0}

\* C4: persistence across registry instances. Every store under home holds
\* exactly the documents ever committed to it, by this Surfer or one before
\* it, and a read through the present Surfer returns the matching ones among
\* them (up to its limit).
C4_Persistence ==
    /\ \A n \in Names : is_some(disk[n]) => unwrap(disk[n]).docs = committed[n]
    /\ (IsRead(ret) /\ ret.kind = "Some" /\ ret.score = None) =>
          Len(ret.list) = Min(limit_or_default(ret.limit),
                              Cardinality(Matching(committed[ret.name], ret)))

\* C4's case: a Surfer that has opened no writer reads back, in full, the
\* documents a Surfer before it committed.
C4_Witness ==
    /\ IsRead(ret) /\ ret.kind = "Some" /\ ret.name = "a"
    /\ wopens["a"] = 0
    /\ inherited["a"] > 0 /\ inherited["a"] = Len(committed["a"])
    /\ Len(ret.list) = inherited["a"]

\* All the fields of a schema.
AllFields(schema) == [i \in 1..Len(schema) |-> i - 1]

\* C5: the on-disk schema is authoritative. A read on a registered collection
\* returns what it would return had the schema the store was created with
\* been supplied to the builder again.
C5_SchemaAuthoritative ==
    (IsRead(ret) /\ Registered(ret.name)) =>
        LET out == read_docs(ret.name, AllFields(index_schema(ret.name)), ret.query,
                             ret.limit, ret.score, ret.T)
        IN ret.kind = out.kind /\ ret.list = out.list

\* C6: the default fields a read binds to the query parser are all the fields
\* of the schema of the store the query runs against.
C6_DefaultFields ==
    \A name \in DOMAIN fields :
        Range(fields[name]) = Range(AllFields(index_schema(name)))

\* C7: limit. A read with no min_score of a registered collection with M
\* documents matching the query returns min(L, M) results, L the limit given
\* (at least 1) or 10 when none is given.
C7_Limit ==
    (/\ IsRead(ret) /\ Registered(ret.name) /\ Parses(ret)
     /\ ret.score = None /\ ret.limit # Some(0)) =>
        /\ ret.kind = "Some"
        /\ Len(ret.list) =
              LET M == Cardinality(Matching(searcher(ret.name), ret))
              IN IF ret.limit = None THEN Min(10, M) ELSE Min(unwrap(ret.limit), M)

\* C7's case: more than ten documents match and no limit is given.
C7_Witness ==
    /\ IsRead(ret) /\ Registered(ret.name) /\ ret.limit = None /\ ret.score = None
    /\ Cardinality(Matching(searcher(ret.name), ret)) > 10
    /\ Len(ret.list) = 10

\* What a read reconstructs from the document at an address.
Reconstructed(call, address) ==
    LET json == jsonify(index_schema(call.name),
                        stored_doc(index_schema(call.name), searcher(call.name)[address])).val
    IN IF call.op = "read_string" THEN json ELSE from_str(call.T, json).val

\* The top `limit` hits of a read, in rank order.
Window(call) ==
    search(searcher(call.name),
           parse_query(index_schema(call.name), fields[call.name], call.query),
           limit_or_default(call.limit))

\* The hits of a window with a score of at least s, in the window's order.
AtLeast(window, s) ==
    LET Keep(hit) == hit.score >= s IN SelectSeq(window, Keep)

\* C8: min_score is a filter on the top-limit window. With min_score s the
\* result is the window's hits of score >= s, in rank order, and nothing from
\* outside the window.
C8_MinScore ==
    (IsRead(ret) /\ Registered(ret.name) /\ ret.kind = "Some" /\ is_some(ret.score)) =>
        LET kept == AtLeast(Window(ret), unwrap(ret.score))
        IN /\ Len(ret.list) = Len(kept)
           /\ \A i \in 1..Len(kept) : ret.list[i] = Reconstructed(ret, kept[i].address)

\* C8's case: more documents match than the limit, the window holds a hit
\* below the score and one at exactly the score; the result is shorter than
\* the limit and keeps the latter.
C8_Witness ==
    /\ IsRead(ret) /\ Registered(ret.name) /\ ret.kind = "Some"
    /\ is_some(ret.score) /\ is_some(ret.limit)
    /\ Cardinality(Matching(searcher(ret.name), ret)) > unwrap(ret.limit)
    /\ Len(ret.list) < unwrap(ret.limit)
    /\ \E i \in 1..Len(Window(ret)) : Window(ret)[i].score = unwrap(ret.score)
    /\ \E i \in 1..Len(Window(ret)) : Window(ret)[i].score < unwrap(ret.score)

ReachesWriter(call) ==
    call.op = "insert_structs" \/ (call.op = "insert_struct" /\ to_string(call.payload[1]).ok)

\* The handle slots of one Surfer, over a step that is not a construction:
\* an open handle stays, and stays the same handle; a slot is filled only by
\* a call of its kind on its collection, and at most once.
HandlesKept(n) ==
    /\ is_some(writers[n]) =>
          is_some(writers'[n]) /\ unwrap(writers'[n]).id = unwrap(writers[n]).id
    /\ is_some(readers[n]) => readers'[n] = readers[n]
    /\ (is_none(writers[n]) /\ is_some(writers'[n])) =>
          IsInsert(ret') /\ ret'.name = n /\ ret'.opened
    /\ (is_none(readers[n]) /\ is_some(readers'[n])) =>
          IsRead(ret') /\ ret'.name = n /\ ret'.opened
    /\ wopens'[n] <= 1 /\ ropens'[n] <= 1
    /\ (IsRead(ret') /\ ret'.name = n) => is_some(readers'[n])

\* C10 as claimed: lazy open and reuse, the writer opened by the first insert
\* call on the collection.
C10_LazyHandles_Claimed ==
    [][ret'.op # "new" =>
          \A n \in DOMAIN writers :
              /\ HandlesKept(n)
              /\ (IsInsert(ret') /\ ret'.name = n) => is_some(writers'[n])]_vars

\* C10, amended: lazy open and reuse, the writer opened by the first insert
\* call that gets past serialization (insert_one serializes its record before
\* it opens the writer; a record that does not serialize leaves the slot as
\* it was), the reader by the first read call.
C10_LazyHandles ==
    [][ret'.op # "new" =>
          \A n \in DOMAIN writers :
              /\ HandlesKept(n)
              /\ (ReachesWriter(ret') /\ ret'.name = n) => is_some(writers'[n])
              /\ (IsInsert(ret') /\ ret'.name = n /\ ~ReachesWriter(ret')) =>
                    writers'[n] = writers[n]]_vars

\* C10's case: both handles of a collection are open and a later insert has
\* reused the writer.
C10_Witness ==
    /\ IsInsert(ret) /\ Registered(ret.name) /\ ret.kind = "Ok" /\ ~ret.opened
    /\ is_some(writers[ret.name]) /\ is_some(readers[ret.name])
    /\ wopens[ret.name] = 1 /\ ropens[ret.name] = 1

\* C11: initial state. Right after a Surfer is constructed, every registered
\* collection has a writer slot and a reader slot, both absent, whether its
\* directory was created by this construction or existed before it.
C11_InitialState ==
    ret.op = "new" =>
        /\ DOMAIN writers = DOMAIN indexes /\ DOMAIN readers = DOMAIN indexes
        /\ \A n \in DOMAIN indexes : is_none(writers[n]) /\ is_none(readers[n])
        /\ \A n \in DOMAIN indexes : is_some(disk[n])

\* C11's case: a Surfer constructed over a directory that existed and holds
\* documents a Surfer before it wrote.
C11_Witness ==
    /\ ret.op = "new" /\ Registered("a")
    /\ inherited["a"] > 0 /\ Len(searcher("a")) = inherited["a"]
    /\ is_none(writers["a"]) /\ is_none(readers["a"])

\* The engine documents of a payload, as the insert parses them.
Parsed(name, payload) ==
    [i \in 1..Len(payload) |->
        parse_document(index_schema(name), to_string(payload[i]).val).val]

\* The last n elements of a sequence.
Suffix(s, n) == SubSeq(s, Len(s) - n + 1, Len(s))

\* C12: add/commit ordering. A successful insert_one makes one add_document
\* call then one commit call; a successful insert_many of n records makes n
\* add_document calls, in batch order, then one commit call, none between two
\* adds; when the call returns the store ends with those documents, in order.
C12_AddCommitOrder ==
    [][(IsInsert(ret') /\ ret'.kind = "Ok" /\ Registered(ret'.name)) =>
          LET docs == Parsed(ret'.name, ret'.payload) IN
          /\ ret'.op = "insert_struct" => Len(docs) = 1
          /\ ops' = [i \in 1..Len(docs) |-> WriterCall("add_document", docs[i])]
                       \o <<WriterCall("commit", <<>>)>>
          /\ Len(unwrap(disk'[ret'.name]).docs) >= Len(searcher(ret'.name)) + Len(docs)
          /\ Suffix(unwrap(disk'[ret'.name]).docs, Len(docs)) = docs
          /\ unwrap(writers'[ret'.name]).pending = <<>>]_vars

\* C12's case: a batch of two different records was inserted with success
\* into a collection that held a document already.
C12_Witness ==
    /\ ret.op = "insert_structs" /\ ret.kind = "Ok" /\ Registered(ret.name)
    /\ Len(ret.payload) = 2 /\ ret.payload[1] # ret.payload[2]
    /\ Len(ops) = 3
    /\ Len(searcher(ret.name)) > 2

\* A map whose keys are strings and whose values are variants of the table.
InTable(data) ==
    /\ data.tag = "Map"
    /\ \A i \in 1..Len(data.val) :
          data.val[i].k.tag = "String" /\ data.val[i].v.tag \in TableTags

\* The kind table.
TableKind(tag) ==
    CASE tag \in {"String", "Bool"} -> "Text"
      [] tag \in {"U8", "U16", "U32", "U64"} -> "U64"
      [] tag \in {"I8", "I16", "I32", "I64"} -> "I64"
      [] tag \in {"F32", "F64"} -> "F64"
      [] tag = "Seq" -> "Bytes"

\* C13: kind table. For a map with string keys and values among String, Bool,
\* U8..U64, I8..I64, F32, F64 and Seq, inference succeeds with one field per
\* key, named by the key, of the kind the table gives the value's variant.
C13_KindTable ==
    (ret.op = "to_schema" /\ InTable(ret.data)) =>
        /\ ret.result.ok
        /\ Len(ret.result.val) = Len(ret.data.val)
        /\ \A i \in 1..Len(ret.data.val) :
              /\ Cardinality({j \in 1..Len(ret.result.val) :
                                 ret.result.val[j].name = ret.data.val[i].k.val}) = 1
              /\ ret.result.val[i].name = ret.data.val[i].k.val
              /\ ret.result.val[i].kind = TableKind(ret.data.val[i].v.tag)

\* C13's case: a schema inferred from a map with a Bool and a Seq.
C13_Witness ==
    /\ ret.op = "to_schema" /\ InTable(ret.data) /\ ret.result.ok
    /\ Len(ret.result.val) = 2
    /\ ret.data.val[1].v.tag = "Bool" /\ ret.result.val[1].kind = "Text"
    /\ ret.data.val[2].v.tag = "Seq" /\ ret.result.val[2].kind = "Bytes"

\* C14: inference failures. A value that is no map, a key that is no string
\* or a value variant outside the table makes the inference an error, without
\* a schema, whatever the other entries and wherever the entry stands.
C14_InferenceFailures ==
    (ret.op = "to_schema" /\ ~InTable(ret.data)) =>
        ~ret.result.ok /\ ret.result.val = <<>>

\* C14's case: the offending entry (a null) comes last, after a valid one.
C14_Witness ==
    /\ ret.op = "to_schema" /\ ret.data.tag = "Map" /\ Len(ret.data.val) = 2
    /\ ret.data.val[1].k.tag = "String" /\ ret.data.val[1].v.tag = "String"
    /\ ret.data.val[2].k.tag = "String" /\ ret.data.val[2].v.tag = "Unit"
    /\ ~ret.result.ok

\* The kind a resolver resolves.
ResolvedKind(op) == IF op = "resolve_text_option" THEN "Text" ELSE "Int"

\* C15: option resolution. resolve_text and resolve_numeric return the default
\* (stored, indexed) without a table or without an entry for the name, the
\* default when the entry is of the other kind, and the entry as it is when
\* its kind is the one resolved.
C15_OptionResolution ==
    ret.op \in {"resolve_text_option", "resolve_number_option"} =>
        LET Has == is_some(ret.control) /\ ret.key \in DOMAIN unwrap(ret.control)
            entry == unwrap(ret.control)[ret.key]
        IN /\ ~Has => ret.result = [stored |-> TRUE, indexed |-> TRUE]
           /\ (Has /\ entry.tag # ResolvedKind(ret.op)) =>
                 ret.result = [stored |-> TRUE, indexed |-> TRUE]
           /\ (Has /\ entry.tag = ResolvedKind(ret.op)) =>
                 ret.result = [stored |-> entry.stored, indexed |-> entry.indexed]

\* C15's case: an override of the kind resolved, with stored = false, among
\* entries for other names, resolves to stored = false.
C15_Witness ==
    /\ ret.op = "resolve_number_option" /\ is_some(ret.control)
    /\ DOMAIN unwrap(ret.control) = {"title", "body"}
    /\ ret.key \in DOMAIN unwrap(ret.control)
    /\ unwrap(ret.control)[ret.key].tag = "Int" /\ ~unwrap(ret.control)[ret.key].stored
    /\ ~ret.result.stored /\ ret.result.indexed

\* The stored documents a read retrieves: the hits of its window at or above
\* its min_score.
Retrieved(call) ==
    {Window(call)[i].address :
        i \in {j \in 1..Len(Window(call)) : ~below_score(Window(call)[j].score, call.score)}}

\* C16: reconstruction invariant. Every payload a read returns has exactly one
\* member for every field of the collection's schema, and a read that
\* retrieves a document with no stored value for some field of the schema
\* fails with an error.
C16_Reconstruction ==
    (ret.op = "read_string" /\ Registered(ret.name) /\ Parses(ret) /\ ret.limit # Some(0)) =>
        /\ ret.kind = "Some" =>
              \A i \in 1..Len(ret.list) : \A f \in 1..Len(index_schema(ret.name)) :
                  Cardinality({j \in 1..Len(ret.list[i]) :
                                  ret.list[i][j].k = index_schema(ret.name)[f].name}) = 1
        /\ (\E a \in Retrieved(ret) :
               ~Complete(index_schema(ret.name),
                         stored_doc(index_schema(ret.name), searcher(ret.name)[a])))
              => ret.kind = "Err"

\* The records of a payload with a sequence for a field the collection's
\* schema has as Bytes.
WithSequence(name, payload) ==
    {i \in 1..Len(payload) :
        \E j \in 1..Len(payload[i].fields), f \in 1..Len(index_schema(name)) :
            /\ payload[i].fields[j].v.tag = "Seq"
            /\ index_schema(name)[f].name = payload[i].fields[j].k
            /\ index_schema(name)[f].kind = "Bytes"}

\* No field of a document has more than one value.
SingleValued(document) ==
    \A i, j \in 1..Len(document) : document[i].field = document[j].field => i = j

\* The records' sequence fields are Bytes fields of the schema inferred from them.
InfersBytes(data) ==
    \A j \in 1..Len(data.fields) :
        data.fields[j].v.tag = "Seq" =>
            \E f \in 1..Len(add_struct(data)) :
                add_struct(data)[f].name = data.fields[j].k /\ add_struct(data)[f].kind = "Bytes"

\* C17: sequences are rejected on insert. A record with a byte-sequence field
\* infers a Bytes field; every insert of a record with a sequence for such a
\* field fails with a parse error and commits nothing; no document with more
\* than one value for a field is added.
C17_SequencesRejected ==
    [][(IsInsert(ret') /\ Registered(ret'.name)) =>
          /\ \A i \in 1..Len(ret'.payload) : InfersBytes(ret'.payload[i])
          /\ WithSequence(ret'.name, ret'.payload) # {} =>
                ret'.kind = "Err" /\ disk' = disk
          /\ \A a \in 1..Len(unwrap(disk'[ret'.name]).docs) :
                SingleValued(unwrap(disk'[ret'.name]).docs[a])]_vars

\* home/name: home, a separator unless home ends with one, and name.
HomeSlashName(name) ==
    IF home[Len(home)] = "/" THEN home \o name ELSE home \o <<"/">> \o name

\* C18 as claimed: which_index returns nothing for a name that is not
\* registered, a registered name that begins with home unchanged, home/name
\* for any other registered name, and changes no state.
C18_WhichIndex_Claimed ==
    [][ret'.op = "which_index" =>
          /\ ret'.list = IF ~Registered(ret'.name) THEN None
                         ELSE IF starts_with(ret'.name, home) THEN Some(ret'.name)
                         ELSE Some(HomeSlashName(ret'.name))
          /\ UNCHANGED <<home, disk, indexes, fields, readers, writers>>]_vars

\* C18, amended: as claimed, except that a registered name that is an
\* absolute path (and does not begin with home) is returned unchanged too:
\* joining it to home replaces home.
C18_WhichIndex ==
    [][ret'.op = "which_index" =>
          /\ ret'.list = IF ~Registered(ret'.name) THEN None
                         ELSE IF starts_with(ret'.name, home) THEN Some(ret'.name)
                         ELSE IF ret'.name # <<>> /\ ret'.name[1] = "/" THEN Some(ret'.name)
                         ELSE Some(HomeSlashName(ret'.name))
          /\ UNCHANGED <<home, disk, indexes, fields, readers, writers>>]_vars

\* C18's case: a registered name that has the home as a prefix came back
\* unchanged.
C18_Witness ==
    /\ ret.op = "which_index" /\ Registered(ret.name)
    /\ starts_with(ret.name, home) /\ ret.name # home
    /\ ret.list = Some(ret.name)

\* C19: no batching across calls. The documents an insert's commit makes
\* durable are the documents that call added, and no others: a call that
\* returns success extends the store by its own documents, a call that returns
\* an error leaves the store as it was, and what a failed call had added is
\* never committed by a later call.
C19_NoBatchingAcrossCalls ==
    [][(IsInsert(ret') /\ Registered(ret'.name)) =>
          unwrap(disk'[ret'.name]).docs =
              IF ret'.kind = "Ok"
              THEN searcher(ret'.name) \o Parsed(ret'.name, ret'.payload)
              ELSE searcher(ret'.name)]_vars

\* What a read returns when it observes exactly the documents `docs`.
Observing(call, docs) ==
    LET schema == index_schema(call.name)
        window == search(docs, parse_query(schema, fields[call.name], call.query),
                         limit_or_default(call.limit))
        hits == IF is_some(call.score) THEN AtLeast(window, unwrap(call.score)) ELSE window
    IN [i \in 1..Len(hits) |->
           LET json == jsonify(schema, stored_doc(schema, docs[hits[i].address])).val
           IN IF call.op = "read_string" THEN json ELSE from_str(call.T, json).val]

Fails(name, payload) ==
    \E i \in 1..Len(payload) :
        \/ ~to_string(payload[i]).ok
        \/ ~parse_document(index_schema(name), to_string(payload[i]).val).ok

\* What read_as_text returns for a query, with the default limit, on a
\* collection of the given schema, documents and default fields.
Visible(schema, docs, default_fields, query) ==
    IF parse_query(schema, default_fields, query).kind # "Ok"
    THEN [kind |-> parse_query(schema, default_fields, query).kind, list |-> <<>>]
    ELSE collect(schema, docs,
                 search(docs, parse_query(schema, default_fields, query), DefaultLimit),
                 None, "", 1, <<>>)

\* C21: a failed insert leaves the visible data unchanged. An insert on a
\* registered collection returns an error exactly when a record of it fails
\* to serialize or to parse; the call then has issued no commit, the store is
\* as it was, and a read right after it returns what it returned before it,
\* the records of the batch before the failing one included in neither.
C21_FailedInsert ==
    [][\A n \in DOMAIN indexes :
          (IsInsert(ret') /\ ret'.name = n) =>
              /\ ret'.kind = "Err" <=> Fails(n, ret'.payload)
              /\ ret'.kind = "Err" =>
                    /\ \A i \in 1..Len(ops') : ops'[i].call # "commit"
                    /\ disk' = disk
                    /\ \A query \in {<<"sea">>, <<"man">>} :
                          Visible(index_schema(n)', searcher(n)', fields'[n], query)
                             = Visible(index_schema(n), searcher(n), fields[n], query)]_vars

\* C21's case: a batch failed at its second record, after its first was added
\* to the writer; a read right after it does not return that first record.
C21_Witness ==
    /\ ret.op = "insert_structs" /\ ret.kind = "Err" /\ Registered(ret.name)
    /\ Len(ret.payload) = 2 /\ Len(ops) = 1
    /\ Len(unwrap(writers[ret.name]).pending) = 1
    /\ TextTerms(ret.payload[1]) = {"sea"}
    /\ Visible(index_schema(ret.name), searcher(ret.name), fields[ret.name],
               <<"sea">>) = [kind |-> "Some", list |-> <<>>]

\* C22: independent handle lifecycles. An insert changes no reader slot; a
\* read changes no writer slot, adds no document and commits nothing; a call
\* on one collection changes neither the writer slot, nor the reader slot,
\* nor the stored documents of another; a read on a name that is not
\* registered changes no slot.
C22_IndependentHandles ==
    [][/\ IsInsert(ret') => readers' = readers
       /\ IsRead(ret') => writers' = writers /\ disk' = disk /\ ops' = <<>>
       /\ (IsInsert(ret') \/ IsRead(ret')) =>
             \A n \in Names \ {ret'.name} :
                 /\ disk'[n] = disk[n]
                 /\ n \in DOMAIN writers => writers'[n] = writers[n]
                 /\ n \in DOMAIN readers => readers'[n] = readers[n]
       /\ (IsRead(ret') /\ ~Registered(ret'.name)) =>
             readers' = readers /\ writers' = writers]_vars

\* C22's case: two collections with documents and both handles open each, and
\* an insert on one of them has just committed.
C22_Witness ==
    /\ ret.op = "insert_struct" /\ ret.kind = "Ok" /\ ret.name = "a"
    /\ Registered("a") /\ Registered("b")
    /\ is_some(readers["a"]) /\ is_some(readers["b"])
    /\ is_some(writers["a"]) /\ is_some(writers["b"])
    /\ Len(searcher("a")) > 0 /\ Len(searcher("b")) > 0

\* The field a member of a returned payload belongs to, and whether the
\* members of a payload ascend by a rank.
FieldId(name, k) == unwrap(get_field(index_schema(name), k))
Ascending(members, Rank(_)) ==
    \A j \in 1..(Len(members) - 1) : Rank(members[j].k) < Rank(members[j + 1].k)
NameSorted(schema) ==
    \A f \in 1..(Len(schema) - 1) : KeyRank(schema[f].name) < KeyRank(schema[f + 1].name)

\* C23 as stated: every payload a read returns lists its members in the
\* document's sorted field order, the order of the schema's fields, for every
\* schema.
C23_FieldOrder_Claimed ==
    (ret.op = "read_string" /\ ret.kind = "Some" /\ Registered(ret.name)) =>
        \A i \in 1..Len(ret.list) :
            LET InSchema(k) == FieldId(ret.name, k) IN Ascending(ret.list[i], InSchema)

\* C23: output field order. Every payload a read returns lists its members in
\* ascending order of field name, whatever the order of the schema's fields
\* and of the record's fields; that is the document's sorted field order when
\* the schema lists its fields in name order, as an inferred schema does.
C23_FieldOrder ==
    (ret.op = "read_string" /\ ret.kind = "Some" /\ Registered(ret.name)) =>
        \A i \in 1..Len(ret.list) :
            /\ Ascending(ret.list[i], KeyRank)
            /\ NameSorted(index_schema(ret.name)) =>
                  LET InSchema(k) == FieldId(ret.name, k) IN Ascending(ret.list[i], InSchema)

\* C23's case: a read returns a document of a collection whose schema has
\* title before body, as the record has, and the payload has body first.
C23_Witness ==
    /\ ret.op = "read_string" /\ ret.kind = "Some" /\ Registered(ret.name)
    /\ index_schema(ret.name) = TitleFirstSchema
    /\ Len(ret.list) > 0
    /\ [j \in 1..Len(ret.list[1]) |-> ret.list[1][j].k] = <<"body", "title">>

\* The four maps of a registry have one key set, the names built at
\* construction (those with a store under home).
KeySets ==
    /\ DOMAIN indexes = {n \in DOMAIN disk : is_some(disk[n])}
    /\ DOMAIN fields = DOMAIN indexes
    /\ DOMAIN readers = DOMAIN indexes
    /\ DOMAIN writers = DOMAIN indexes
KeysKept ==
    /\ DOMAIN indexes' = DOMAIN indexes
    /\ DOMAIN fields' = DOMAIN fields
    /\ DOMAIN readers' = DOMAIN readers
    /\ DOMAIN writers' = DOMAIN writers

\* C24: registry key-set invariant. In every reachable state the store map,
\* the field-list map, the reader-slot map and the writer-slot map have the
\* same key set, the names registered at construction, and no insert, read or
\* which_index call adds or removes a key.
C24_KeySets ==
    /\ []KeySets
    /\ [][(IsInsert(ret') \/ IsRead(ret') \/ ret'.op = "which_index") => KeysKept]_vars

\* C24's case: with one collection registered, and written and read, a read
\* has just been made with the name that is not registered.
C24_Witness ==
    /\ IsRead(ret) /\ ret.name = KeyB /\ ret.kind = "None"
    /\ DOMAIN indexes = {KeyA}
    /\ is_some(writers[KeyA]) /\ is_some(readers[KeyA])
    /\ Len(unwrap(disk[KeyA]).docs) > 0

\* C25: empty map. Schema inference on a top-level Map with no entries
\* succeeds with a schema of zero fields, while a unit value, which is no Map,
\* is an error.
C25_EmptyMap ==
    ret.op = "to_schema" =>
        /\ (ret.data.tag = "Map" /\ Len(ret.data.val) = 0) =>
              ret.result.ok /\ ret.result.val = <<>> /\ ret.result.err = ""
        /\ ret.data.tag = "Unit" => ~ret.result.ok

\* C25's case: the schema of a Map with no entries has been inferred.
C25_Witness ==
    /\ ret.op = "to_schema" /\ ret.data = [tag |-> "Map", val |-> <<>>]
    /\ ret.result.ok /\ Len(ret.result.val) = 0

====
